---- MODULE Spec2Model ----
(***************************************************************************)
(* Single-point GNSS positioning by iterated least squares, as implemented *)
(* by proto/least_squares.py and proto/rover_position.py.                  *)
(*                                                                         *)
(* One call of least_squares(obs, navs, init_pos) is a state machine:      *)
(*   SelectSats -> Initializing -> Iterating -> Converged | Exhausted      *)
(*              -> Returned | Failed                                       *)
(* with rover_position.py re-entering SelectSats once, seeded with the     *)
(* estimate of its first pass.                                             *)
(*                                                                         *)
(* Numbers.  A length or a time m + e*1e-10 is the pair <<m, e>>, so that  *)
(* the initial point 1e-10 of the source is exact.  Corrections are whole  *)
(* numbers.  Python values carry their type, because `+` and `+=` mean     *)
(* concatenation on a list and element-wise addition on an ndarray.        *)
(*                                                                         *)
(* External collaborators (eph2pos, time_offset, sat_elev, tropmodel,      *)
(* ecef_to_lat_lon_alt) and numpy's matrix inverse are not part of the     *)
(* sources: a satellite position is the term <<prn, time>> it is evaluated *)
(* at, an elevation is an input, and the solution of the normal equations  *)
(* is an input together with whether numpy found the matrix singular.      *)
(***************************************************************************)
EXTENDS Integers, Sequences, FiniteSets, TLC

VARIABLES
    prog,       \* which module's least_squares runs
    obs,        \* the observation: sequence of [prn, C1, P2]
    navs,       \* prn -> sequence of ephemeris records
    now,        \* obs.date
    init_pos,   \* the a-priori position argument of the current call
    pc,         \* control state of the current call
    sats,       \* working set: sequence of <<prn, nearest record>>
    elev,       \* per observation index: <<e>> if sat_elev was evaluated, else <<>>
    P,          \* observed pseudoranges of the working set
    XYZs,       \* satellite positions of the working set, as <<prn, time>>
    xyzt,       \* working estimate (position and clock bias)
    itr,        \* loop iterations completed by the current call
    design,     \* the design system (A, l) of the last iteration
    x_hat,      \* the last correction
    delta2,     \* squared norm of the last position correction
    warn,       \* the warning printed by the guard
    ret,        \* the value returned to the caller
    exc,        \* the exception raised to the caller
    solves,     \* calls of least_squares started by the top-level call
    iters,      \* loop iterations run by the top-level call
    main,       \* the calling script
    t,          \* nav_nearest_in_time: the epoch argument
    nav_array,  \* nav_nearest_in_time: the records argument
    nearest     \* nav_nearest_in_time: the result

vars == <<prog, obs, navs, now, init_pos, pc, sats, elev, P, XYZs, xyzt, itr,
          design, x_hat, delta2, warn, ret, exc, solves, iters, main,
          t, nav_array, nearest>>

solveVars == <<prog, obs, navs, now, init_pos, pc, sats, elev, P, XYZs, xyzt, itr,
               design, x_hat, delta2, warn, ret, exc, solves, iters, main>>

navVars == <<t, nav_array, nearest>>

----------------------------------------------------------------------------
(* Bounds of the model                                                      *)

NumSats == 4

MaxRecords == 3

MaxTime == 3

----------------------------------------------------------------------------
(* Program constants                                                        *)

c == 299792428

MAX_ITER == 10

LS == "least_squares"

RP == "rover_position"

Progs == {LS, RP}

elev_mask(p) == IF p = LS THEN 8 ELSE 10

threshold(p) == IF p = LS THEN 1 ELSE 10

----------------------------------------------------------------------------
(* Numbers and Python values                                                *)

Num(m) == <<m, 0>>

Tiny == <<0, 1>>

NumAdd(a, b) == <<a[1] + b[1], a[2] + b[2]>>

PyStr == [kind |-> "str", v |-> <<>>]

PyList(s) == [kind |-> "list", v |-> s]

PyArray(s) == [kind |-> "ndarray", v |-> s]

PyNone == [kind |-> "None", v |-> <<>>]

PyUnset == [kind |-> "unset", v |-> <<>>]

PyLen(a) == Len(a.v)

\* a + b with b a list: a list is concatenated, an ndarray broadcasts
PyAdd(a, b) ==
    IF a.kind = "list"
    THEN PyList(a.v \o b.v)
    ELSE PyArray([i \in 1..Len(a.v) |->
                    NumAdd(a.v[i], IF Len(b.v) = 1 THEN b.v[1] ELSE b.v[i])])

\* a += b with b an ndarray: numpy's addition wins over list extension
PyIAdd(a, b) == PyArray([i \in 1..Len(a.v) |-> NumAdd(a.v[i], b[i])])

\* a[:n]
PySlice(a, n) == [kind |-> a.kind, v |-> SubSeq(a.v, 1, IF n < Len(a.v) THEN n ELSE Len(a.v))]

Abs(x) == IF x < 0 THEN -x ELSE x

----------------------------------------------------------------------------
(* Ephemeris Selector                                                       *)

\* an ephemeris record: reference time, issue date, and its identity
NavRecord(toe, n) == [t_oe |-> toe, date |-> toe, id |-> n]

\* the time-scale conversion of the ephemeris object (parse_rinex, not in src)
utc2gps(tt) == tt

diff_array(tt, na) == [i \in 1..Len(na) |-> Abs(na[i].t_oe - tt)]

diff_array_rover(tt, na) == [i \in 1..Len(na) |-> Abs(na[i].date - utc2gps(tt))]

\* min(s)
SeqMin(s) == CHOOSE m \in {s[i] : i \in 1..Len(s)} : \A j \in 1..Len(s) : m <= s[j]

\* a plausible slip: the last position of x in s
index_last(s, x) == CHOOSE i \in 1..Len(s) : s[i] = x /\ \A j \in (i+1)..Len(s) : s[j] # x

\* s.index(x): the first position of x in s
index(s, x) == CHOOSE i \in 1..Len(s) : s[i] = x /\ \A j \in 1..(i-1) : s[j] # x

nav_nearest_in_time(tt, na) ==
    na[index(diff_array(tt, na), SeqMin(diff_array(tt, na)))]

nav_nearest_in_time_rover(tt, na) ==
    na[index(diff_array_rover(tt, na), SeqMin(diff_array_rover(tt, na)))]

----------------------------------------------------------------------------
(* Inputs                                                                   *)

Kinds == {"ok", "noC1", "noP2", "glonass"}

\* the observation of satellite number i
Entry(i, k) ==
    [prn |-> <<IF k = "glonass" THEN "R" ELSE "G", i>>,
     C1  |-> IF k = "noC1" THEN 0 ELSE 20000000 + i,
     P2  |-> IF k = "noP2" THEN 0 ELSE 20000005 + i]

Observations ==
    {[i \in 1..NumSats |-> Entry(i, k[i])] : k \in [1..NumSats -> Kinds]}

Epochs == {7200}

PRNs == {<<s, i>> : s \in {"G", "R"}, i \in 1..NumSats}

\* two records per satellite, two hours before and one hour after the epoch;
\* every third satellite has them equally far from it
NavTable(tnow) ==
    [r \in PRNs |->
        IF r[2] % 3 = 0
        THEN <<NavRecord(tnow - 3600, 1), NavRecord(tnow + 3600, 2)>>
        ELSE IF r[2] % 3 = 1
        THEN <<NavRecord(tnow - 7200, 1), NavRecord(tnow + 3600, 2)>>
        ELSE <<NavRecord(tnow + 3600, 1), NavRecord(tnow - 7200, 2)>>]

\* elevations sat_elev may report, in degrees
Elevs == {5, 8, 10}

\* an a-priori position in ECEF metres
APriori == <<Num(2734549), Num(1595964), Num(5518311)>>

InitPositions == {PyStr, PyList(APriori)}

\* solutions of the normal equations: a position correction (metres) and a
\* clock term in range units, as whole multiples of c
Solutions ==
    {<<0, 0, 0, 0>>, <<3, 4, 0, 0>>, <<6, 8, 0, c>>}

NavArrays ==
    UNION {{[i \in 1..n |-> NavRecord(f[i], i)] : f \in [1..n -> 0..MaxTime]} : n \in 1..MaxRecords}

----------------------------------------------------------------------------
(* Satellite Filter                                                         *)

nearest_for(p, tt, na) ==
    IF p = LS THEN nav_nearest_in_time(tt, na) ELSE nav_nearest_in_time_rover(tt, na)

\* the signal and constellation test of the filter
usable(o) == o.C1 # 0 /\ o.P2 # 0 /\ o.prn[1] = "G"

\* a plausible slip: the mask applied without an a-priori position
masked_unseeded(p, ip, e) == e < elev_mask(p)

\* the elevation test of the filter
masked(p, ip, e) == PyLen(ip) > 0 /\ e < elev_mask(p)

\* the filter loop over the first n satellites of the observation
RECURSIVE select_sats(_, _, _, _, _, _, _)
select_sats(p, o, nv, tnow, ip, elevs, n) ==
    IF n = 0 THEN <<>>
    ELSE LET head == select_sats(p, o, nv, tnow, ip, elevs, n - 1)
             r    == o[n].prn
         IN  IF usable(o[n])
             THEN IF masked(p, ip, elevs[n])
                  THEN head
                  ELSE Append(head, <<r, nearest_for(p, tnow, nv[r])>>)
             ELSE head

\* which elevations the filter asked for
elevations_seen(o, ip, elevs) ==
    [i \in 1..Len(o) |-> IF usable(o[i]) /\ PyLen(ip) > 0 THEN <<elevs[i]>> ELSE <<>>]

----------------------------------------------------------------------------
(* Least-Squares Core                                                       *)

NoDesign == [A |-> <<>>, l |-> <<>>, est |-> PyUnset]

\* a plausible slip: three satellites let through
enough_sats_three(s) == Len(s) > 2

\* the guard on the size of the working set
enough_sats(s) == Len(s) > 3

\* the observation entry of satellite r
obs_of(o, r) == o[CHOOSE i \in 1..Len(o) : o[i].prn = r]

\* the observed pseudoranges: C1 in least_squares.py, the (external)
\* iono-free combination of C1 and P2 in rover_position.py
pseudoranges(p, o, s) ==
    [i \in 1..Len(s) |->
        [sat |-> s[i][1],
         how |-> IF p = LS THEN "C1" ELSE "ionofree",
         C1  |-> obs_of(o, s[i][1]).C1,
         P2  |-> IF p = LS THEN 0 ELSE obs_of(o, s[i][1]).P2]]

\* s[1].eph2pos(time) for every satellite of the working set
sat_positions(s, time) == [i \in 1..Len(s) |-> <<s[i][1], time>>]

\* the initial point of the iteration
initial_point(ip) ==
    IF PyLen(ip) > 0
    THEN PyAdd(ip, PyList(<<Num(0)>>))
    ELSE PyList(<<Tiny, Tiny, Tiny, Num(0)>>)

\* the design matrix: one row per satellite, line of sight and c
design_matrix(est, s, xyz) ==
    [i \in 1..Len(s) |-> [from |-> PySlice(est, 3).v, to |-> xyz[i], c4 |-> c]]

\* the residuals: P - rho + c * time_offset(now + xyzt[3]) [- tropmodel]
residuals(p, est, s, xyz, pr, tnow) ==
    [i \in 1..Len(s) |->
        [P    |-> pr[i],
         rho  |-> <<PySlice(est, 3).v, xyz[i]>>,
         cfac |-> c,
         clk  |-> <<s[i][1], NumAdd(Num(tnow), est.v[4])>>,
         trop |-> p = LS]]

\* x_hat[3] /= c
to_seconds(sol) == [i \in 1..4 |-> IF i = 4 THEN Num(sol[4] \div c) ELSE Num(sol[i])]

\* delta squared: the sum of the squares of x_hat[:3]
norm2(xh) == xh[1][1] * xh[1][1] + xh[2][1] * xh[2][1] + xh[3][1] * xh[3][1]

\* a plausible slip: delta <= threshold
converged_at_threshold(p, d2) == d2 <= threshold(p) * threshold(p)

\* delta < threshold, on the squares
converged(p, d2) == d2 < threshold(p) * threshold(p)

\* a plausible slip: the seeded call retries too
retries_always(p, ip) == p = RP

\* whether the call starts a second, seeded call (rover_position.py only)
retries(p, ip) == p = RP /\ PyLen(ip) = 0

\* the return expression
result(p, est) == IF p = LS THEN PySlice(est, 3) ELSE est

----------------------------------------------------------------------------
(* State machine                                                            *)

NavIdle == t = 0 /\ nav_array = <<>> /\ nearest = <<>>

NewFrame ==
    /\ sats = <<>>
    /\ elev = [i \in 1..Len(obs) |-> <<>>]
    /\ P = <<>>
    /\ XYZs = <<>>
    /\ xyzt = PyUnset
    /\ itr = 0
    /\ design = NoDesign
    /\ x_hat = <<>>
    /\ delta2 = 0
    /\ warn = ""

Init ==
    /\ prog \in Progs
    /\ obs \in Observations
    /\ now \in Epochs
    /\ navs = NavTable(now)
    /\ init_pos \in InitPositions
    /\ pc = "SelectSats"
    /\ NewFrame
    /\ ret = PyUnset
    /\ exc = ""
    /\ solves = 1
    /\ iters = 0
    /\ main = "calling"
    /\ NavIdle

\* the filter loop
SelectSats ==
    /\ pc = "SelectSats"
    /\ \E elevs \in [1..Len(obs) -> Elevs] :
        /\ sats' = select_sats(prog, obs, navs, now, init_pos, elevs, Len(obs))
        /\ elev' = elevations_seen(obs, init_pos, elevs)
    /\ pc' = "Initializing"
    /\ UNCHANGED <<prog, obs, navs, now, init_pos, P, XYZs, xyzt, itr, design,
                   x_hat, delta2, warn, ret, exc, solves, iters, main>>
    /\ UNCHANGED navVars

\* the guard, the pseudoranges, the first satellite positions, the initial point
Initialize ==
    /\ pc = "Initializing"
    /\ IF enough_sats(sats)
       THEN /\ P' = pseudoranges(prog, obs, sats)
            /\ XYZs' = sat_positions(sats, Num(now))
            /\ xyzt' = initial_point(init_pos)
            /\ pc' = "Iterating"
            /\ UNCHANGED <<warn, ret>>
       ELSE /\ warn' = IF prog = LS \/ PyLen(init_pos) > 0
                       THEN "too few satellites" ELSE "bad measurement"
            /\ ret' = PyNone
            /\ pc' = "Returned"
            /\ UNCHANGED <<P, XYZs, xyzt>>
    /\ UNCHANGED <<prog, obs, navs, now, init_pos, sats, elev, itr, design,
                   x_hat, delta2, exc, solves, iters, main>>
    /\ UNCHANGED navVars

\* one pass of the loop body
Iterate ==
    /\ pc = "Iterating"
    /\ \E singular \in BOOLEAN, sol \in Solutions :
        /\ design' = [A   |-> design_matrix(xyzt, sats, XYZs),
                      l   |-> residuals(prog, xyzt, sats, XYZs, P, now),
                      est |-> xyzt]
        /\ itr' = itr + 1
        /\ iters' = iters + 1
        /\ IF singular
           THEN /\ exc' = "LinAlgError"
                /\ pc' = "Failed"
                /\ UNCHANGED <<x_hat, xyzt, delta2, XYZs>>
           ELSE /\ x_hat' = to_seconds(sol)
                /\ xyzt' = PyIAdd(xyzt, x_hat')
                /\ delta2' = norm2(x_hat')
                /\ IF converged(prog, delta2')
                   THEN /\ pc' = "Converged"
                        /\ UNCHANGED XYZs
                   ELSE /\ XYZs' = sat_positions(sats, NumAdd(Num(now), x_hat'[4]))
                        /\ pc' = IF itr' = MAX_ITER THEN "Exhausted" ELSE "Iterating"
                /\ UNCHANGED exc
    /\ UNCHANGED <<prog, obs, navs, now, init_pos, sats, elev, P, warn, ret,
                   solves, main>>
    /\ UNCHANGED navVars

\* after the loop: return the estimate
Finish ==
    /\ pc \in {"Converged", "Exhausted"}
    /\ ~retries(prog, init_pos)
    /\ ret' = result(prog, xyzt)
    /\ pc' = "Returned"
    /\ UNCHANGED <<prog, obs, navs, now, init_pos, sats, elev, P, XYZs, xyzt,
                   itr, design, x_hat, delta2, warn, exc, solves, iters, main>>
    /\ UNCHANGED navVars

\* after the loop: call least_squares again with the estimate as init_pos
Retry ==
    /\ pc \in {"Converged", "Exhausted"}
    /\ retries(prog, init_pos)
    /\ init_pos' = xyzt
    /\ solves' = solves + 1
    /\ pc' = "SelectSats"
    /\ sats' = <<>>
    /\ elev' = [i \in 1..Len(obs) |-> <<>>]
    /\ P' = <<>>
    /\ XYZs' = <<>>
    /\ xyzt' = PyUnset
    /\ itr' = 0
    /\ design' = NoDesign
    /\ x_hat' = <<>>
    /\ delta2' = 0
    /\ warn' = ""
    /\ UNCHANGED <<prog, obs, navs, now, ret, exc, iters, main>>
    /\ UNCHANGED navVars

\* the calling script has no handler around the call
MainReceive ==
    /\ main = "calling"
    /\ pc \in {"Returned", "Failed"}
    /\ main' = IF pc = "Failed" THEN "crashed" ELSE "done"
    /\ UNCHANGED <<prog, obs, navs, now, init_pos, pc, sats, elev, P, XYZs, xyzt,
                   itr, design, x_hat, delta2, warn, ret, exc, solves, iters>>
    /\ UNCHANGED navVars

Next == SelectSats \/ Initialize \/ Iterate \/ Finish \/ Retry \/ MainReceive

Spec == Init /\ [][Next]_vars

----------------------------------------------------------------------------
(* The ephemeris selector on its own                                        *)

InitNav ==
    /\ t \in 0..MaxTime
    /\ nav_array \in NavArrays
    /\ nearest = <<>>
    /\ prog = LS
    /\ obs = <<>>
    /\ now = 0
    /\ navs = <<>>
    /\ init_pos = PyStr
    /\ pc = "idle"
    /\ NewFrame
    /\ ret = PyUnset
    /\ exc = ""
    /\ solves = 0
    /\ iters = 0
    /\ main = "idle"

SelectEphemeris ==
    /\ nearest = <<>>
    /\ nav_array # <<>>
    /\ nearest' = <<nav_nearest_in_time(t, nav_array)>>
    /\ UNCHANGED <<t, nav_array>>
    /\ UNCHANGED solveVars

NextNav == SelectEphemeris

SpecNav == InitNav /\ [][NextNav]_vars

----------------------------------------------------------------------------
(* Properties                                                               *)

InCall == pc \notin {"idle", "SelectSats"}

PastGuard == pc \notin {"idle", "SelectSats", "Initializing"}

Seeded == PyLen(init_pos) > 0

\* the position of satellite r in the observation
ObsIndex(r) == CHOOSE i \in 1..Len(obs) : obs[i].prn = r

InWorkingSet(r) == \E j \in 1..Len(sats) : sats[j][1] = r

\* C1: with fewer than 4 satellites in the working set the call returns None
\* and the loop body never ran (no iteration, no design system, no
\* exception), with and without an a-priori position.
C1_InsufficientSatellites ==
    (PastGuard /\ Len(sats) < 4) =>
        /\ pc = "Returned"
        /\ ret = PyNone
        /\ itr = 0
        /\ design = NoDesign
        /\ x_hat = <<>>
        /\ exc = ""

\* a seeded call that the elevation mask left with exactly 3 satellites
C1_Witness ==
    /\ pc = "Returned"
    /\ Seeded
    /\ Len(sats) = 3
    /\ ret = PyNone
    /\ \E i \in 1..Len(obs) : elev[i] = <<5>>

\* C2: nav_nearest_in_time returns a record of the list whose |t_oe - t| is
\* minimal, and among those the one with the smallest index.
C2_NearestFirst ==
    nearest # <<>> =>
        \E k \in 1..Len(nav_array) :
            /\ nearest[1] = nav_array[k]
            /\ \A j \in 1..Len(nav_array) :
                  Abs(nav_array[k].t_oe - t) <= Abs(nav_array[j].t_oe - t)
            /\ \A j \in 1..(k - 1) :
                  Abs(nav_array[j].t_oe - t) > Abs(nav_array[k].t_oe - t)

\* a tie between an earlier and a later record, on either side of the epoch
C2_Witness ==
    /\ nearest # <<>>
    /\ \E j \in 1..Len(nav_array) :
          /\ j > nearest[1].id
          /\ nav_array[j].t_oe # nearest[1].t_oe
          /\ Abs(nav_array[j].t_oe - t) = Abs(nearest[1].t_oe - t)

\* C3: a satellite with both measurements and a GPS tag is left out of the
\* working set exactly when an a-priori position is given and its elevation
\* is below the mask (so at 5 degrees under the mask of 10); without an
\* a-priori position no elevation is evaluated and none is left out; the
\* working set keeps the order of the observation.
C3_ElevationMask ==
    InCall =>
        /\ \A i \in 1..Len(obs) :
              LET good == obs[i].C1 # 0 /\ obs[i].P2 # 0 /\ obs[i].prn[1] = "G"
              IN  /\ ~good => ~InWorkingSet(obs[i].prn)
                  /\ (good /\ ~Seeded) => (InWorkingSet(obs[i].prn) /\ elev[i] = <<>>)
                  /\ (good /\ Seeded) =>
                        /\ elev[i] # <<>>
                        /\ InWorkingSet(obs[i].prn) <=> (elev[i][1] >= elev_mask(prog))
                        /\ (elev[i][1] = 5) => ~InWorkingSet(obs[i].prn)
        /\ \A j, k \in 1..Len(sats) :
              j < k => ObsIndex(sats[j][1]) < ObsIndex(sats[k][1])

\* rover_position.py (mask 10): a usable satellite at 5 degrees is left out
\* of a seeded call, the others stay in order
C3_Witness ==
    /\ InCall
    /\ prog = RP
    /\ Seeded
    /\ Len(sats) >= 2
    /\ \E i \in 1..Len(obs) :
          /\ obs[i].C1 # 0 /\ obs[i].P2 # 0 /\ obs[i].prn[1] = "G"
          /\ elev[i] = <<5>>
          /\ ~InWorkingSet(obs[i].prn)

\* the estimate the last iteration started from, plus the last correction
Updated == [i \in 1..4 |-> NumAdd(design.est.v[i], x_hat[i])]

Thr2 == threshold(prog) * threshold(prog)

\* C4: the loop runs at most 10 iterations, goes on only while the
\* correction norm is not below the threshold, ends Converged at the first
\* iteration below it and Exhausted after the 10th otherwise; in both the
\* estimate, and the position returned, include the last correction.
C4_LoopTerminates ==
    /\ itr <= 10
    /\ pc = "Iterating" => (itr < 10 /\ (itr > 0 => delta2 >= Thr2))
    /\ pc = "Converged" => (itr >= 1 /\ delta2 < Thr2)
    /\ pc = "Exhausted" => (itr = 10 /\ delta2 >= Thr2)
    /\ pc \in {"Converged", "Exhausted"} => xyzt.v = Updated
    /\ (pc = "Returned" /\ ret # PyNone) =>
          /\ xyzt.v = Updated
          /\ SubSeq(ret.v, 1, 3) = SubSeq(Updated, 1, 3)

\* an exhausted call has returned its last estimate
C4_Witness ==
    /\ pc = "Returned"
    /\ ret # PyNone
    /\ itr = 10
    /\ delta2 >= Thr2
    /\ x_hat[1] # Num(0)

\* what the caller can observe of a call that ended
Exhausted == pc = "Returned" /\ ret # PyNone /\ itr = 10 /\ delta2 >= Thr2

\* C5: a call that ran out of iterations returns its estimate and tells the
\* caller so: what the caller gets is not what a converged call gives (a
\* bare array of numbers, no warning, no exception).
C5_ExhaustedIsTold ==
    Exhausted => ~(ret.kind = "ndarray" /\ warn = "" /\ exc = "")

\* C6: when the normal-equations matrix is singular the call fails without
\* returning a position or updating the estimate, and the caller survives.
C6_SingularReported ==
    exc = "LinAlgError" =>
        /\ pc = "Failed"
        /\ ret = PyUnset
        /\ xyzt = design.est
        /\ main # "crashed"

\* C7: the speed of light in every design-matrix row and every residual
\* is 299792458 m/s.
C7_SpeedOfLight ==
    \A i \in 1..Len(design.A) :
        /\ design.A[i].c4 = 299792458
        /\ design.l[i].cfac = 299792458

\* C8: at the start of every call's loop the estimate has 4 components,
\* clock bias 0, and the a-priori position (or 1e-10 three times) first.
C8_InitialEstimate ==
    (pc = "Iterating" /\ itr = 0) =>
        /\ Len(xyzt.v) = 4
        /\ xyzt.v[4] = Num(0)
        /\ Seeded => SubSeq(xyzt.v, 1, 3) = SubSeq(init_pos.v, 1, 3)
        /\ ~Seeded => SubSeq(xyzt.v, 1, 3) = <<Tiny, Tiny, Tiny>>

\* C9: every design system takes the satellite positions and the satellite
\* clock offsets at one time, the epoch plus the clock bias of the estimate
\* it is built from.
C9_OneTransmissionTime ==
    \A i \in 1..Len(design.A) :
        /\ design.A[i].to[2] = design.l[i].clk[2]
        /\ design.A[i].to[2] = NumAdd(Num(now), design.est.v[4])

\* C10: rover_position.py runs at most 2 calls and 20 iterations per
\* top-level call; only an unseeded call starts another, seeded with its
\* estimate; what is returned is None or the seeded call's estimate.
C10_Invariant ==
    prog = RP =>
        /\ solves <= 2
        /\ iters <= 20
        /\ solves = 2 => Seeded
        /\ pc = "Returned" => (ret = PyNone \/ (Seeded /\ ret = xyzt))

C10_Step ==
    (prog = RP /\ solves' # solves) =>
        /\ ~Seeded
        /\ solves' = solves + 1
        /\ init_pos' = xyzt
        /\ PyLen(init_pos') > 0

\* C10: the bounds hold in every state, and every new call is the one seeded
\* call an unseeded rover_position.py call starts.
C10_BoundedRetry == []C10_Invariant /\ [][C10_Step]_vars

\* the seeded second call has returned its estimate after 20 iterations
C10_Witness ==
    /\ prog = RP
    /\ pc = "Returned"
    /\ solves = 2
    /\ iters = 20
    /\ ret = xyzt

====
